---- MODULE Spec2Model ----
(***************************************************************************)
(* Translation State & Synchronization Engine of onekey.                   *)
(*                                                                         *)
(* The model follows the newest revision of each source file:              *)
(*   state.ts      src/unnamed/part_013  lines 182-353                     *)
(*   file.ts       src/unnamed/part_009                                    *)
(*   translate.ts  src/src/translate.ts  lines 369-780                     *)
(*   cli.ts        src/unnamed/part_015                                    *)
(*                                                                         *)
(* Timestamps are integers: touch stores date.toISOString() and isStale    *)
(* compares new Date(string); for the dates the program itself produces    *)
(* the round trip Date -> ISO string -> Date is exact to the millisecond,  *)
(* so the order of the stored strings is the order of the integers.        *)
(***************************************************************************)
EXTENDS Integers, Sequences, FiniteSets, TLC

\* ------------------------------------------------------------------ bounds
MaxTime == 2          \* the clock takes the values 1..MaxTime
MaxEdits == 1         \* number of edits the user makes to the file tree
MaxRuns == 2          \* number of command runs
MaxTranslates == 1    \* number of translate commands among them
MaxTouches == 3       \* number of direct calls of touch
MaxStamp == 2         \* the dates 1..MaxStamp passed to a direct touch

\* A chunk holds 100 keys in the source; the model scales the size down so
\* that a work set of three keys is split into two chunks.
ChunkSize == 2

\* ------------------------------------------------------------- vocabulary
BaseLocale == "en"
TargetDirs == {"es", "xx"}
AllDirs == {BaseLocale} \cup TargetDirs
\* the codes listed in language-codes.json
allLanguages == {"en", "es"}
FileNames == {"main"}           \* the file main.json, named by its namespace
TopKeys == <<"hello", "bye", "extra">>
FileOrder == <<"main">>         \* the order readdir lists the files in
DirOrder == <<"es", "xx">>      \* the order readdir lists the locales in
Undef == "<undefined>"          \* JavaScript undefined

Range(s) == {s[i] : i \in 1..Len(s)}

\* ------------------------------------------------------------ State model
\* KeyMeta: { current?: string, lastModified: string }
KeyMeta(ts, cur) == [lastModified |-> ts, current |-> cur]

\* A keys record is kept as the sequence of its entries in insertion order,
\* which is the order Object.entries and Object.keys enumerate.
KeyIndex(keys, k) ==
  IF \E i \in 1..Len(keys) : keys[i].key = k
  THEN CHOOSE i \in 1..Len(keys) : keys[i].key = k
  ELSE 0

HasKey(keys, k) == KeyIndex(keys, k) # 0

GetMeta(keys, k) == keys[KeyIndex(keys, k)].meta

\* keys[k] = meta
PutKey(keys, k, meta) ==
  IF HasKey(keys, k)
  THEN [keys EXCEPT ![KeyIndex(keys, k)] = [key |-> k, meta |-> meta]]
  ELSE Append(keys, [key |-> k, meta |-> meta])

\* delete keys[k]
DeleteKey(keys, k) == SelectSeq(keys, LAMBDA e : e.key # k)

KeySet(keys) == {keys[i].key : i \in 1..Len(keys)}

\* state.locales.find((loc) => loc.code === locale), as an index (0: none)
FindLocale(state, locale) ==
  IF \E i \in 1..Len(state.locales) : state.locales[i].code = locale
  THEN CHOOSE i \in 1..Len(state.locales) :
         /\ state.locales[i].code = locale
         /\ \A j \in 1..(i - 1) : state.locales[j].code # locale
  ELSE 0

LocaleKeys(state, locale) ==
  LET li == FindLocale(state, locale)
  IN IF li = 0 THEN <<>> ELSE state.locales[li].keys

\* codes of state.locales in document order
Codes(state) == [i \in 1..Len(state.locales) |-> state.locales[i].code]

\* createState; the record carries whether the state file exists
createState == [exists |-> TRUE, baseLocale |-> BaseLocale, locales |-> <<>>]

\* what loadState finds when oneKeyState.json does not exist (ENOENT)
NoState == [exists |-> FALSE, baseLocale |-> BaseLocale, locales |-> <<>>]

\* touch without the content-equality suppression: a supplied value always
\* rewrites the metadata
touch_NoSuppression(state, locale, key, date, current) ==
  LET li == FindLocale(state, locale)
      keys == state.locales[li].keys
  IN IF li = 0
     THEN [state EXCEPT !.locales =
             Append(@, [code |-> locale,
                        keys |-> <<[key |-> key,
                                    meta |-> KeyMeta(date, current)]>>])]
     ELSE IF ~HasKey(keys, key) \/ current # Undef
     THEN [state EXCEPT !.locales[li].keys =
             PutKey(keys, key, KeyMeta(date, current))]
     ELSE [state EXCEPT !.locales[li].keys =
             PutKey(keys, key, KeyMeta(date, GetMeta(keys, key).current))]

\* touch storing newMeta as it is when no value is passed: current is lost
touch_DropsCurrent(state, locale, key, date, current) ==
  IF current = Undef /\ HasKey(LocaleKeys(state, locale), key)
  THEN [state EXCEPT !.locales[FindLocale(state, locale)].keys =
          PutKey(@, key, KeyMeta(date, Undef))]
  ELSE touch_NoSuppression(state, locale, key, date, current)

\* touch pushing a locale entry without looking for an existing one
touch_PushesAgain(state, locale, key, date, current) ==
  [state EXCEPT !.locales =
     Append(@, [code |-> locale,
                keys |-> <<[key |-> key, meta |-> KeyMeta(date, current)]>>])]

\* touch storing the time of day without the date
touch_TimeOnly(state, locale, key, date, current) ==
  touch_NoSuppression(state, locale, key, date % 2, current)

\* touch(state, locale, key, date, current?)
touch(state, locale, key, date, current) ==
  LET li == FindLocale(state, locale)
      newMeta == KeyMeta(date, current)
  IN IF li = 0
     THEN [state EXCEPT !.locales =
             Append(@, [code |-> locale,
                        keys |-> <<[key |-> key, meta |-> newMeta]>>])]
     ELSE LET keys == state.locales[li].keys
          IN IF ~HasKey(keys, key)
             THEN [state EXCEPT !.locales[li].keys = PutKey(keys, key, newMeta)]
             ELSE LET existingMeta == GetMeta(keys, key)
                  IN IF current # Undef /\ existingMeta.current # current
                     THEN [state EXCEPT !.locales[li].keys =
                             PutKey(keys, key, KeyMeta(date, current))]
                     ELSE IF current = Undef
                     THEN [state EXCEPT !.locales[li].keys =
                             PutKey(keys, key,
                                    KeyMeta(date, existingMeta.current))]
                     ELSE state

\* isStale with a non-strict comparison of the two dates
isStale_NonStrict(state, baseLocale, locale, key) ==
  LET baseKeys == LocaleKeys(state, baseLocale)
      locKeys == LocaleKeys(state, locale)
  IN IF ~HasKey(baseKeys, key) THEN FALSE
     ELSE IF ~HasKey(locKeys, key) THEN TRUE
     ELSE GetMeta(baseKeys, key).lastModified
            >= GetMeta(locKeys, key).lastModified

\* isStale(state, baseLocale, locale, key)
isStale(state, baseLocale, locale, key) ==
  LET baseKeys == LocaleKeys(state, baseLocale)
      locKeys == LocaleKeys(state, locale)
  IN IF ~HasKey(baseKeys, key) THEN FALSE
     ELSE IF ~HasKey(locKeys, key) THEN TRUE
     ELSE GetMeta(baseKeys, key).lastModified
            > GetMeta(locKeys, key).lastModified

\* the sentinel "missing" of diffState, kept apart from every timestamp
Missing == -1

\* diffState going through the base keys first and the locales inside
RECURSIVE DiffKey_AllLocales(_, _, _)
DiffKey_AllLocales(state, key, i) ==
  IF i > Len(state.locales) THEN <<>>
  ELSE LET localeEntry == state.locales[i]
           rest == DiffKey_AllLocales(state, key, i + 1)
           baseKeys == LocaleKeys(state, state.baseLocale)
       IN IF localeEntry.code # state.baseLocale
             /\ isStale(state, state.baseLocale, localeEntry.code, key)
          THEN <<[locale |-> localeEntry.code,
                  key |-> key,
                  baseTs |-> GetMeta(baseKeys, key).lastModified,
                  localeTs |-> IF HasKey(localeEntry.keys, key)
                               THEN GetMeta(localeEntry.keys, key).lastModified
                               ELSE Missing]>> \o rest
          ELSE rest

RECURSIVE DiffFrom_KeyMajor(_, _)
DiffFrom_KeyMajor(state, i) ==
  IF i > Len(LocaleKeys(state, state.baseLocale)) THEN <<>>
  ELSE DiffKey_AllLocales(state, LocaleKeys(state, state.baseLocale)[i].key, 1)
       \o DiffFrom_KeyMajor(state, i + 1)

diffState_KeyMajor(state) ==
  IF FindLocale(state, state.baseLocale) = 0 THEN <<>>
  ELSE DiffFrom_KeyMajor(state, 1)

\* diffState iterating the locale's own keys instead of the base locale's
RECURSIVE DiffLocale_OwnKeys(_, _, _, _)
DiffLocale_OwnKeys(state, localeEntry, baseKeys, i) ==
  IF i > Len(localeEntry.keys) THEN <<>>
  ELSE LET key == localeEntry.keys[i].key
           rest == DiffLocale_OwnKeys(state, localeEntry, baseKeys, i + 1)
       IN IF ~HasKey(baseKeys, key)
             \/ isStale(state, state.baseLocale, localeEntry.code, key)
          THEN <<[locale |-> localeEntry.code,
                  key |-> key,
                  baseTs |-> IF HasKey(baseKeys, key)
                             THEN GetMeta(baseKeys, key).lastModified
                             ELSE Missing,
                  localeTs |-> localeEntry.keys[i].meta.lastModified]>>
               \o rest
          ELSE rest

\* the records diffState pushes for one locale entry, in base key order
RECURSIVE DiffLocale(_, _, _, _)
DiffLocale(state, localeEntry, baseKeys, i) ==
  IF i > Len(baseKeys) THEN <<>>
  ELSE LET key == baseKeys[i].key
           meta == baseKeys[i].meta
           rest == DiffLocale(state, localeEntry, baseKeys, i + 1)
       IN IF isStale(state, state.baseLocale, localeEntry.code, key)
          THEN <<[locale |-> localeEntry.code,
                  key |-> key,
                  baseTs |-> meta.lastModified,
                  localeTs |-> IF HasKey(localeEntry.keys, key)
                               THEN GetMeta(localeEntry.keys, key).lastModified
                               ELSE Missing]>> \o rest
          ELSE rest

RECURSIVE DiffFrom(_, _)
DiffFrom(state, i) ==
  IF i > Len(state.locales) THEN <<>>
  ELSE IF state.locales[i].code = state.baseLocale
       THEN DiffFrom(state, i + 1)
       ELSE DiffLocale(state, state.locales[i],
                       LocaleKeys(state, state.baseLocale), 1)
            \o DiffFrom(state, i + 1)

\* diffState(state)
diffState(state) ==
  IF FindLocale(state, state.baseLocale) = 0 THEN <<>>
  ELSE DiffFrom(state, 1)

\* -------------------------------------------------------------- file tree
\* A translation file is absent, unparsable, or a JSON object given as the
\* sequence of its entries in document order.  An entry is a string leaf
\* (leaf, s) or an object of string leaves (sub), the two shapes
\* TranslationSchema admits.
AbsentFile == [kind |-> "absent", entries |-> <<>>]
BadFile == [kind |-> "bad", entries |-> <<>>]
JsonFile(entries) == [kind |-> "json", entries |-> entries]
Leaf(k, s) == [k |-> k, leaf |-> TRUE, s |-> s, sub |-> <<>>]
Node(k, sub) == [k |-> k, leaf |-> FALSE, s |-> "", sub |-> sub]

NoDir == [exists |-> FALSE, files |-> [f \in FileNames |-> AbsentFile]]
EmptyDir == [exists |-> TRUE, files |-> [f \in FileNames |-> AbsentFile]]

\* readdir(path), json files only, in listing order; <<>> for a missing dir
ListFiles(tree, dir) ==
  SelectSeq(FileOrder, LAMBDA f : tree[dir].files[f].kind # "absent")

\* the locale directories other than the base locale
ListLocales(tree) ==
  SelectSeq(DirOrder, LAMBDA d : tree[d].exists)

\* writeJSON(prettierConfig, folder, fileName, content): mkdir + writeFile
writeJSON(tree, dir, f, entries) ==
  [tree EXCEPT ![dir] = [exists |-> TRUE,
                         files |-> [@.files EXCEPT ![f] = JsonFile(entries)]]]

\* mkdir(path, { recursive: true })
mkdir(tree, dir) == [tree EXCEPT ![dir].exists = TRUE]

\* ----------------------------------------------------------- key flattener
RECURSIVE FlattenSub(_, _, _, _)
FlattenSub(sub, namespace, prefix, i) ==
  IF i > Len(sub) THEN <<>>
  ELSE <<[key |-> namespace \o "." \o prefix \o "." \o sub[i].k,
          value |-> sub[i].s]>>
       \o FlattenSub(sub, namespace, prefix, i + 1)

\* flattenKeysWithValues(obj, namespace)
RECURSIVE flattenKeysWithValues(_, _, _)
flattenKeysWithValues(obj, namespace, i) ==
  IF i > Len(obj) THEN <<>>
  ELSE (IF obj[i].leaf
        THEN <<[key |-> namespace \o "." \o obj[i].k, value |-> obj[i].s]>>
        ELSE FlattenSub(obj[i].sub, namespace, obj[i].k, 1))
       \o flattenKeysWithValues(obj, namespace, i + 1)

\* flattenKeys(obj, namespace) of translate.ts: the keys alone
flattenKeys(obj, namespace) ==
  LET flat == flattenKeysWithValues(obj, namespace, 1)
  IN [i \in 1..Len(flat) |-> flat[i].key]

\* ---------------------------------------------------------- sync reconciler
\* The reconciliation of syncState works on an accumulator: the in-memory
\* state, the has* flags, the keys seen in the base files, the removed keys,
\* the file tree, the keys touched, and whether a read threw.
SyncAcc(state, tree) ==
  [state |-> state, tree |-> tree,
   hasNewKeys |-> FALSE, hasUpdatedKeys |-> FALSE,
   hasRemovedKeys |-> FALSE, hasNewLanguages |-> FALSE,
   baseLocaleKeysFromFiles |-> {}, removedKeys |-> {}, updatedKeys |-> {},
   touches |-> {}, failed |-> FALSE]

\* syncState noticing new base keys only, not changed values
SyncBaseEntry_NewOnly(acc, e, now) ==
  LET baseKeys == LocaleKeys(acc.state, BaseLocale)
      seen == [acc EXCEPT !.baseLocaleKeysFromFiles = @ \cup {e.key}]
  IN IF ~HasKey(baseKeys, e.key)
     THEN [seen EXCEPT
             !.state = touch(acc.state, BaseLocale, e.key, now, e.value),
             !.touches = @ \cup {<<BaseLocale, e.key>>},
             !.hasNewKeys = TRUE]
     ELSE seen

\* syncState comparing the value read with current whatever the value is
SyncBaseEntry_EmptyUpdates(acc, e, now) ==
  LET baseKeys == LocaleKeys(acc.state, BaseLocale)
      seen == [acc EXCEPT !.baseLocaleKeysFromFiles = @ \cup {e.key}]
  IN IF ~HasKey(baseKeys, e.key)
     THEN [seen EXCEPT
             !.state = touch(acc.state, BaseLocale, e.key, now, e.value),
             !.touches = @ \cup {<<BaseLocale, e.key>>},
             !.hasNewKeys = TRUE]
     ELSE IF GetMeta(baseKeys, e.key).current # e.value
     THEN [seen EXCEPT
             !.state = touch(acc.state, BaseLocale, e.key, now, e.value),
             !.touches = @ \cup {<<BaseLocale, e.key>>},
             !.updatedKeys = @ \cup {e.key},
             !.hasUpdatedKeys = TRUE]
     ELSE seen

\* syncState, the body of the loop over the flat entries of a base file
SyncBaseEntry(acc, e, now) ==
  LET baseKeys == LocaleKeys(acc.state, BaseLocale)
      seen == [acc EXCEPT !.baseLocaleKeysFromFiles = @ \cup {e.key}]
  IN IF ~HasKey(baseKeys, e.key)
     THEN [seen EXCEPT
             !.state = touch(acc.state, BaseLocale, e.key, now, e.value),
             !.touches = @ \cup {<<BaseLocale, e.key>>},
             !.hasNewKeys = TRUE]
     ELSE IF e.value # "" /\ GetMeta(baseKeys, e.key).current # e.value
     THEN [seen EXCEPT
             !.state = touch(acc.state, BaseLocale, e.key, now, e.value),
             !.touches = @ \cup {<<BaseLocale, e.key>>},
             !.updatedKeys = @ \cup {e.key},
             !.hasUpdatedKeys = TRUE]
     ELSE seen

RECURSIVE SyncBaseEntries(_, _, _, _)
SyncBaseEntries(acc, flat, i, now) ==
  IF i > Len(flat) THEN acc
  ELSE SyncBaseEntries(SyncBaseEntry(acc, flat[i], now), flat, i + 1, now)

\* syncState, the loop over the base locale's files; readJSON throws on a
\* file that does not parse, which ends the reconciliation
RECURSIVE SyncBaseFiles(_, _, _, _)
SyncBaseFiles(acc, baseFileNames, j, now) ==
  IF j > Len(baseFileNames) \/ acc.failed THEN acc
  ELSE LET file == acc.tree[BaseLocale].files[baseFileNames[j]]
       IN IF file.kind = "bad"
          THEN [acc EXCEPT !.failed = TRUE]
          ELSE SyncBaseFiles(
                 SyncBaseEntries(acc,
                   flattenKeysWithValues(file.entries, baseFileNames[j], 1),
                   1, now),
                 baseFileNames, j + 1, now)

\* delete the key k from every locale entry but the base one
\* syncState deleting a removed key from the base locale only
DeleteFromOthers_None(locales, k) == locales

DeleteFromOthers(locales, k) ==
  [i \in 1..Len(locales) |->
     IF locales[i].code # BaseLocale
     THEN [locales[i] EXCEPT !.keys = DeleteKey(@, k)]
     ELSE locales[i]]

RECURSIVE RemoveKeys(_, _, _)
RemoveKeys(acc, existingKeys, i) ==
  IF i > Len(existingKeys) THEN acc
  ELSE LET existingKey == existingKeys[i]
           bi == FindLocale(acc.state, BaseLocale)
       IN IF existingKey \notin acc.baseLocaleKeysFromFiles
          THEN RemoveKeys(
                 [acc EXCEPT
                    !.state.locales =
                       DeleteFromOthers(
                         [@ EXCEPT ![bi].keys = DeleteKey(@, existingKey)],
                         existingKey),
                    !.removedKeys = @ \cup {existingKey},
                    !.hasRemovedKeys = TRUE],
                 existingKeys, i + 1)
          ELSE RemoveKeys(acc, existingKeys, i + 1)

\* syncState, "Remove keys that no longer exist in base locale files"
SyncRemoved(acc) ==
  IF acc.failed \/ FindLocale(acc.state, BaseLocale) = 0 THEN acc
  ELSE LET baseKeys == LocaleKeys(acc.state, BaseLocale)
       IN RemoveKeys(acc, [i \in 1..Len(baseKeys) |-> baseKeys[i].key], 1)

\* syncState without the check of removedKeys
SyncLocaleEntry_NoSkip(acc, locale, hadEntry, e, now) ==
  IF hadEntry /\ HasKey(LocaleKeys(acc.state, locale), e.key) THEN acc
  ELSE [acc EXCEPT
          !.state = touch(acc.state, locale, e.key, now, e.value),
          !.touches = @ \cup {<<locale, e.key>>},
          !.hasNewKeys = TRUE]

\* syncState, the body of the loop over the flat entries of a locale's file;
\* hadEntry: the locale entry found before the loop (localeEntry)
SyncLocaleEntry(acc, locale, hadEntry, e, now) ==
  IF e.key \in acc.removedKeys THEN acc
  ELSE IF hadEntry /\ HasKey(LocaleKeys(acc.state, locale), e.key) THEN acc
  ELSE [acc EXCEPT
          !.state = touch(acc.state, locale, e.key, now, e.value),
          !.touches = @ \cup {<<locale, e.key>>},
          !.hasNewKeys = TRUE]

RECURSIVE SyncLocaleEntries(_, _, _, _, _, _)
SyncLocaleEntries(acc, locale, hadEntry, flat, i, now) ==
  IF i > Len(flat) THEN acc
  ELSE SyncLocaleEntries(SyncLocaleEntry(acc, locale, hadEntry, flat[i], now),
                         locale, hadEntry, flat, i + 1, now)

\* syncState, the loop over the base file names for one locale
RECURSIVE SyncLocaleFiles(_, _, _, _, _, _, _)
SyncLocaleFiles(acc, locale, hadEntry, localeFileNames, baseFileNames, j, now) ==
  IF j > Len(baseFileNames) \/ acc.failed THEN acc
  ELSE LET fileName == baseFileNames[j]
           file == acc.tree[locale].files[fileName]
       IN IF fileName \notin Range(localeFileNames)
          THEN SyncLocaleFiles(
                 [acc EXCEPT !.tree = writeJSON(@, locale, fileName, <<>>)],
                 locale, hadEntry, localeFileNames, baseFileNames, j + 1, now)
          ELSE IF file.kind = "bad"
          THEN [acc EXCEPT !.failed = TRUE]
          ELSE SyncLocaleFiles(
                 SyncLocaleEntries(acc, locale, hadEntry,
                   flattenKeysWithValues(file.entries, fileName, 1), 1, now),
                 locale, hadEntry, localeFileNames, baseFileNames, j + 1, now)

\* syncState, "Check for new languages and their keys"
RECURSIVE SyncLocales(_, _, _, _, _)
SyncLocales(acc, allLocales, baseFileNames, l, now) ==
  IF l > Len(allLocales) \/ acc.failed THEN acc
  ELSE LET locale == allLocales[l]
           hadEntry == FindLocale(acc.state, locale) # 0
           pushed ==
             IF hadEntry THEN acc
             ELSE [acc EXCEPT
                     !.state.locales =
                        IF locale \in allLanguages
                        THEN Append(@, [code |-> locale, keys |-> <<>>])
                        ELSE @,
                     !.hasNewLanguages = TRUE]
       IN SyncLocales(
            SyncLocaleFiles(pushed, locale, hadEntry,
                            ListFiles(acc.tree, locale), baseFileNames, 1, now),
            allLocales, baseFileNames, l + 1, now)

\* syncState giving up when the base locale's directory cannot be listed
Reconcile_Raises(state, tree, now) ==
  IF ~tree[BaseLocale].exists
  THEN [SyncAcc(state, tree) EXCEPT !.failed = TRUE]
  ELSE LET baseFileNames == ListFiles(tree, BaseLocale)
           a1 == SyncBaseFiles(SyncAcc(state, tree), baseFileNames, 1, now)
       IN SyncLocales(SyncRemoved(a1), ListLocales(tree), baseFileNames, 1, now)

\* syncState, the reconciliation inside the inner try block: base files,
\* removed keys, locales.  A missing base directory is created and read as
\* having no files.
Reconcile(state, tree, now) ==
  LET baseFileNames == ListFiles(tree, BaseLocale)
      tree1 == IF tree[BaseLocale].exists THEN tree ELSE mkdir(tree, BaseLocale)
      a1 == SyncBaseFiles(SyncAcc(state, tree1), baseFileNames, 1, now)
      a2 == SyncRemoved(a1)
  IN SyncLocales(a2, ListLocales(tree1), baseFileNames, 1, now)

\* syncState saving what it has reconciled when a step fails
SyncSaves_Partial(acc) ==
  acc.hasNewKeys \/ acc.hasNewLanguages \/ acc.hasUpdatedKeys \/ acc.hasRemovedKeys

\* syncState saving the state at the end of every run
SyncSaves_Always(acc) == ~acc.failed

\* "If we found new keys or languages, or removed obsolete ones, save"
SyncSaves(acc) ==
  /\ ~acc.failed
  /\ (acc.hasNewKeys \/ acc.hasNewLanguages
        \/ acc.hasUpdatedKeys \/ acc.hasRemovedKeys)

\* -------------------------------------------------------------- init state
\* initializeState leaving the other locales without the key
InitOthers_None(state, otherLocales, l, key, now) == state

\* initializeState, the touches for one flat entry of a base file
RECURSIVE InitOthers(_, _, _, _, _)
InitOthers(state, otherLocales, l, key, now) ==
  IF l > Len(otherLocales) THEN state
  ELSE InitOthers(touch(state, otherLocales[l], key, now, Undef),
                  otherLocales, l + 1, key, now)

RECURSIVE InitEntries(_, _, _, _, _)
InitEntries(state, otherLocales, flat, i, now) ==
  IF i > Len(flat) THEN state
  ELSE InitEntries(
         InitOthers(touch(state, BaseLocale, flat[i].key, now, flat[i].value),
                    otherLocales, 1, flat[i].key, now),
         otherLocales, flat, i + 1, now)

\* initializeState, the loop over the base files; failed when readJSON throws
RECURSIVE InitFiles(_, _, _, _, _, _)
InitFiles(acc, tree, otherLocales, fileNames, j, now) ==
  IF j > Len(fileNames) \/ acc.failed THEN acc
  ELSE LET file == tree[BaseLocale].files[fileNames[j]]
       IN IF file.kind = "bad"
          THEN [acc EXCEPT !.failed = TRUE]
          ELSE InitFiles(
                 [acc EXCEPT !.state =
                    InitEntries(@, otherLocales,
                      flattenKeysWithValues(file.entries, fileNames[j], 1),
                      1, now)],
                 tree, otherLocales, fileNames, j + 1, now)

\* -------------------------------------------------------------- translator
TopKeySet(obj) == {obj[i].k : i \in 1..Len(obj)}

\* obj[e.k] = e
PutEntry(obj, e) ==
  IF e.k \in TopKeySet(obj)
  THEN [i \in 1..Len(obj) |-> IF obj[i].k = e.k THEN e ELSE obj[i]]
  ELSE Append(obj, e)

\* a merge in which the first object's value wins
RECURSIVE Spread_KeepFirst(_, _, _)
Spread_KeepFirst(a, b, i) ==
  IF i > Len(b) THEN a
  ELSE Spread_KeepFirst(IF b[i].k \in TopKeySet(a) THEN a
                        ELSE Append(a, b[i]), b, i + 1)

\* { ...a, ...b }
RECURSIVE Spread(_, _, _)
Spread(a, b, i) ==
  IF i > Len(b) THEN a ELSE Spread(PutEntry(a, b[i]), b, i + 1)

\* translateLanguage taking the missing keys in update-all mode as well
missingTranslations_Selective(defaultLanguageContent, existingTranslations, updateAll) ==
  SelectSeq(defaultLanguageContent,
            LAMBDA e : e.k \notin TopKeySet(existingTranslations))

\* translateLanguage, the work set: missingTranslations
missingTranslations(defaultLanguageContent, existingTranslations, updateAll) ==
  IF updateAll THEN defaultLanguageContent
  ELSE SelectSeq(defaultLanguageContent,
                 LAMBDA e : e.k \notin TopKeySet(existingTranslations))

\* splitIntoChunks sending the whole object as one chunk
splitIntoChunks_Whole(obj, chunkSize) == <<obj>>

\* splitIntoChunks(obj, chunkSize); index counts from 0 as in the source
RECURSIVE ChunksFrom(_, _, _)
ChunksFrom(obj, chunkSize, index) ==
  IF index >= Len(obj) THEN <<>>
  ELSE IF index % chunkSize = 0
       THEN <<SubSeq(obj, index + 1,
                     IF index + chunkSize < Len(obj)
                     THEN index + chunkSize ELSE Len(obj))>>
            \o ChunksFrom(obj, chunkSize, index + 1)
       ELSE ChunksFrom(obj, chunkSize, index + 1)

splitIntoChunks(obj, chunkSize) == ChunksFrom(obj, chunkSize, 0)

\* What the remote collaborator can answer to one chunk.  A translated
\* string is the source string marked with the target locale.
Tr(locale, str) == locale \o ":" \o str

TrEntry(locale, e) ==
  IF e.leaf THEN Leaf(e.k, Tr(locale, e.s))
  ELSE Node(e.k, [i \in 1..Len(e.sub) |->
                    [k |-> e.sub[i].k, s |-> Tr(locale, e.sub[i].s)]])

Echo(locale, chunk) == [i \in 1..Len(chunk) |-> TrEntry(locale, chunk[i])]

\* kinds of outcome of the HTTP exchange: a parsed JSON object (ok), a
\* non-2xx status, a rejected fetch, empty choices, unparsable content
FailureKinds == {"http", "network", "empty", "malformed"}

Outcomes(locale, chunk) ==
  {[kind |-> k, content |-> <<>>] : k \in FailureKinds}
  \cup {[kind |-> "ok", content |-> Echo(locale, chunk)]}
  \cup {[kind |-> "ok", content |-> SubSeq(Echo(locale, chunk), 1, 1)]}
  \cup {[kind |-> "ok",
         content |-> Append(Echo(locale, chunk), Leaf(k, Tr(locale, "?")))] :
           k \in Range(TopKeys) \ TopKeySet(chunk)}

\* translateViaCallOpenAi losing the parsed content
translateViaCallOpenAi_Empty(outcome) == <<>>

\* translateViaCallOpenAi(config, content): every failure is caught and
\* yields the empty object
translateViaCallOpenAi(outcome) ==
  IF outcome.kind = "ok" THEN outcome.content ELSE <<>>

\* translateLanguage touching the keys for the first target locale as well
RECURSIVE TouchAll_Shared(_, _, _, _, _)
TouchAll_Shared(state, locale, flatKeys, i, now) ==
  IF i > Len(flatKeys) THEN state
  ELSE LET s1 == touch(state, locale, flatKeys[i], now, Undef)
       IN TouchAll_Shared(
            IF locale = BaseLocale THEN s1
            ELSE touch(s1, DirOrder[1], flatKeys[i], now, Undef),
            locale, flatKeys, i + 1, now)

\* translateLanguage, touch(state, targetLanguage.code, key, now) for the
\* flattened translated keys
RECURSIVE TouchAll(_, _, _, _, _)
TouchAll(state, locale, flatKeys, i, now) ==
  IF i > Len(flatKeys) THEN state
  ELSE TouchAll(touch(state, locale, flatKeys[i], now, Undef),
                locale, flatKeys, i + 1, now)

\* ------------------------------------------------------------------- state
VARIABLES
  disk,      \* oneKeyState.json
  tree,      \* the translation files, per locale directory
  keysFile,  \* the generated translation.ts
  clock,     \* the wall clock, new Date()
  edits,     \* edits made so far
  runs,      \* command runs started so far
  translates,\* translate commands started so far
  pc,        \* where the running command stands
  mem,       \* the State object of the running translate call
  run,       \* the locals of the running translate call
  tasks,     \* the translateLanguage call of each target locale
  pending,   \* the writes saveAiTranslations still has to make
  hist,      \* what the running or last command did
  calls      \* the direct calls of touch, the newest last

vars == <<disk, tree, keysFile, clock, edits, runs, translates, pc, mem, run, tasks, pending,
          hist, calls>>

\* ------------------------------------------------------- staleness oracle
\* The operations of state.ts called directly on a State value.
OracleLocales == {"en", "es"}
OracleKeys == {"main.hello", "main.bye"}
OracleValues == {Undef, "Hello"}

NoMeta == KeyMeta(Missing, Undef)

\* the metadata of (locale, key), NoMeta when there is none
MetaOf(state, locale, key) ==
  LET keys == LocaleKeys(state, locale)
      ki == KeyIndex(keys, key)
  IN IF ki = 0 THEN NoMeta ELSE keys[ki].meta

OracleTouch(locale, key, date, current) ==
  /\ Len(calls) < MaxTouches
  /\ mem' = touch(mem, locale, key, date, current)
  /\ calls' = Append(calls,
                [locale |-> locale, key |-> key, date |-> date,
                 current |-> current,
                 before |-> MetaOf(mem, locale, key),
                 after |-> MetaOf(mem', locale, key),
                 stale |-> {p \in OracleLocales \X OracleKeys :
                              isStale(mem, BaseLocale, p[1], p[2])},
                 others |-> \A l \in OracleLocales, k \in OracleKeys :
                              <<l, k>> # <<locale, key>>
                                => MetaOf(mem', l, k) = MetaOf(mem, l, k)])
  /\ UNCHANGED <<disk, tree, keysFile, clock, edits, runs, translates, pc, run, tasks,
                 pending, hist>>

NextOracle ==
  \E locale \in OracleLocales, key \in OracleKeys,
     date \in 1..MaxStamp, current \in OracleValues :
    OracleTouch(locale, key, date, current)

\* --------------------------------------------------------------- commands
NoKeysFile == [exists |-> FALSE, languages |-> <<>>, keys |-> <<>>]
NoRun == [updateAll |-> FALSE, files |-> <<>>, fi |-> 0, now |-> 0,
          content |-> <<>>, languages |-> <<>>, results |-> <<>>]
NoTask == [pc |-> "off", existing |-> <<>>, chunks |-> <<>>, ci |-> 0,
           translated |-> <<>>, answers |-> <<>>]

\* what the running or last command did; the fields a command does not use
\* keep these values
NoHist ==
  [op |-> "none", outcome |-> "", now |-> 0, pre |-> NoState,
   removed |-> {}, updated |-> {}, touches |-> {}, saved |-> FALSE,
   exit |-> 0, io |-> {}, touched |-> {}, failed |-> {}, got |-> {},
   had |-> {}, ncalls |-> 0, nchunks |-> 0, work |-> {}, exact |-> TRUE]

Base2 == <<Leaf("hello", "Hello"), Leaf("bye", "Bye")>>
Base3 == <<Leaf("hello", "Hello"), Leaf("bye", "Bye"), Leaf("extra", "More")>>

MainOnly(entries) == [exists |-> TRUE,
                      files |-> [f \in FileNames |-> JsonFile(entries)]]

\* a base file with an object of two strings, of which the es file has one
NestedTree ==
  [d \in AllDirs |->
     IF d = BaseLocale
     THEN MainOnly(<<Leaf("hello", "Hello"),
                     Node("extra", <<[k |-> "a", s |-> "A"],
                                     [k |-> "b", s |-> "B"]>>)>>)
     ELSE IF d = "es"
     THEN MainOnly(<<Node("extra", <<[k |-> "a", s |-> "es:A"]>>)>>)
     ELSE NoDir]

InitialTrees ==
  {[d \in AllDirs |-> IF d = BaseLocale THEN MainOnly(b)
                      ELSE IF d = "es" THEN e ELSE x] :
     b \in {<<Leaf("hello", "Hello")>>, Base3},
     e \in {NoDir, EmptyDir, MainOnly(<<Leaf("bye", "es:Bye")>>)},
     x \in {NoDir, EmptyDir}}
  \cup {NestedTree}

\* before the first command: no state file, nothing generated
Fresh ==
  /\ disk = NoState
  /\ keysFile = NoKeysFile
  /\ clock = 1
  /\ edits = 0
  /\ runs = 0
  /\ translates = 0
  /\ pc = "idle"
  /\ mem = createState
  /\ run = NoRun
  /\ tasks = [l \in TargetDirs |-> NoTask]
  /\ pending = <<>>
  /\ hist = NoHist
  /\ calls = <<>>

Init == tree \in InitialTrees /\ Fresh

\* all flat keys of the base locale's files, in listing order
RECURSIVE BaseFlatKeys(_, _)
BaseFlatKeys(t, j) ==
  IF j > Len(ListFiles(t, BaseLocale)) THEN <<>>
  ELSE LET f == ListFiles(t, BaseLocale)[j]
       IN flattenKeys(t[BaseLocale].files[f].entries, f)
          \o BaseFlatKeys(t, j + 1)

\* saveKeys: reads the persisted state and every base file and writes
\* translation.ts; it throws, and writes nothing, when a base file does not
\* parse.  The generated text is kept as the languages and the keys it lists.
saveKeys(state, t, old) ==
  IF \E f \in FileNames : t[BaseLocale].files[f].kind = "bad" THEN old
  ELSE [exists |-> TRUE, languages |-> Codes(state),
        keys |-> BaseFlatKeys(t, 1)]

\* loadState answering a missing state file with a new document
loadState_Creates(d) == IF d.exists THEN d ELSE createState

\* loadState: the document of the state file; the callers turn its ENOENT
\* into undefined, here the document with exists = FALSE
loadState(d) == d

\* syncState: what one call does to the state file, the file tree and
\* translation.ts, and what it returns
syncState(d, t, kf, now) ==
  IF ~loadState(d).exists
  THEN [disk |-> d, tree |-> t, keysFile |-> kf,
        hist |-> [NoHist EXCEPT !.op = "sync", !.outcome = "nostate",
                                !.now = now, !.exit = 1]]
  ELSE LET acc == Reconcile(loadState(d), t, now)
           saved == SyncSaves(acc)
           d2 == IF saved THEN acc.state ELSE d
       IN [disk |-> d2, tree |-> acc.tree,
           keysFile |-> saveKeys(d2, acc.tree, kf),
           hist |-> [NoHist EXCEPT
                       !.op = "sync",
                       !.outcome = IF acc.failed THEN "failed" ELSE "done",
                       !.now = now, !.pre = d,
                       !.removed = acc.removedKeys,
                       !.updated = acc.updatedKeys,
                       !.touches = acc.touches,
                       !.saved = saved,
                       !.exit = IF Len(diffState(acc.state)) = 0
                                THEN 0 ELSE 1]]

\* checkStatus running the reconciliation of syncState
checkStatus_Syncs(d, t, kf, now) ==
  LET r == syncState(d, t, kf, now)
  IN [r EXCEPT !.hist.op = "status"]

\* checkStatus: what one call does to the state file, the file tree and
\* translation.ts (nothing), and what it returns
checkStatus(d, t, kf, now) ==
  [disk |-> d, tree |-> t, keysFile |-> kf,
   hist |-> IF ~loadState(d).exists
            THEN [NoHist EXCEPT !.op = "status", !.outcome = "nostate",
                                !.now = now, !.exit = 1]
            ELSE [NoHist EXCEPT
                    !.op = "status", !.outcome = "done", !.now = now,
                    !.pre = d,
                    !.exit = IF Len(diffState(loadState(d))) = 0
                             THEN 0 ELSE 1]]

\* initializeState scanning and saving whether or not a State exists
initializeState_Again(d, t, now) ==
  LET t1 == IF t[BaseLocale].exists THEN t ELSE mkdir(t, BaseLocale)
      acc == InitFiles([state |-> createState, failed |-> FALSE], t1,
                       ListLocales(t), ListFiles(t, BaseLocale), 1, now)
  IN [disk |-> IF acc.failed THEN d ELSE acc.state, tree |-> t1,
      hist |-> [NoHist EXCEPT
                  !.op = "init",
                  !.outcome = IF acc.failed THEN "failed" ELSE "done",
                  !.now = now, !.pre = d, !.saved = ~acc.failed]]

\* initializeState
initializeState(d, t, now) ==
  IF d.exists
  THEN [disk |-> d, tree |-> t,
        hist |-> [NoHist EXCEPT !.op = "init", !.outcome = "exists",
                                !.now = now, !.pre = d]]
  ELSE LET t1 == IF t[BaseLocale].exists THEN t ELSE mkdir(t, BaseLocale)
           acc == InitFiles([state |-> createState, failed |-> FALSE], t1,
                            ListLocales(t), ListFiles(t, BaseLocale), 1, now)
       IN [disk |-> IF acc.failed THEN d ELSE acc.state, tree |-> t1,
           hist |-> [NoHist EXCEPT
                       !.op = "init",
                       !.outcome = IF acc.failed THEN "failed" ELSE "done",
                       !.now = now, !.pre = d, !.saved = ~acc.failed]]

\* onekey init
CmdInit ==
  /\ pc = "idle" /\ runs < MaxRuns
  /\ LET r == initializeState(disk, tree, clock)
     IN /\ disk' = r.disk
        /\ tree' = r.tree
        /\ hist' = r.hist
  /\ runs' = runs + 1
  /\ UNCHANGED <<keysFile, clock, edits, translates, pc, mem, run, tasks,
                 pending, calls>>

\* onekey sync
CmdSync ==
  /\ pc = "idle" /\ runs < MaxRuns
  /\ LET r == syncState(disk, tree, keysFile, clock)
     IN /\ disk' = r.disk
        /\ tree' = r.tree
        /\ keysFile' = r.keysFile
        /\ hist' = r.hist
  /\ runs' = runs + 1
  /\ UNCHANGED <<clock, edits, translates, pc, mem, run, tasks, pending,
                 calls>>

\* onekey sync run once more right after a completed sync run, the files
\* untouched in between (an edit clears hist); this run is allowed when the
\* runs are used up
CmdSyncAgain ==
  /\ pc = "idle" /\ runs = MaxRuns
  /\ hist.op = "sync" /\ hist.outcome = "done"
  /\ LET r == syncState(disk, tree, keysFile, clock)
     IN /\ disk' = r.disk
        /\ tree' = r.tree
        /\ keysFile' = r.keysFile
        /\ hist' = r.hist
  /\ runs' = runs + 1
  /\ UNCHANGED <<clock, edits, translates, pc, mem, run, tasks, pending,
                 calls>>

\* onekey status
CmdStatus ==
  /\ pc = "idle" /\ runs < MaxRuns
  /\ LET r == checkStatus(disk, tree, keysFile, clock)
     IN /\ disk' = r.disk
        /\ tree' = r.tree
        /\ keysFile' = r.keysFile
        /\ hist' = r.hist
  /\ runs' = runs + 1
  /\ UNCHANGED <<clock, edits, translates, pc, mem, run, tasks, pending,
                 calls>>

\* onekey translate, first part: "Sync state first"
CmdTranslate ==
  /\ pc = "idle" /\ runs < MaxRuns /\ translates < MaxTranslates
  /\ translates' = translates + 1
  /\ LET r == syncState(disk, tree, keysFile, clock)
     IN /\ disk' = r.disk
        /\ tree' = r.tree
        /\ keysFile' = r.keysFile
        /\ hist' = r.hist
  /\ runs' = runs + 1
  /\ pc' = "cmd"
  /\ UNCHANGED <<clock, edits, mem, run, tasks, pending, calls>>

ApiUrls == {"", "https://api"}
ApiKeys == {Undef, "key"}

\* translate loading the state before it checks its parameters
translateEntry_LoadFirst(apiUrl, apiKey, d) ==
  IF ~d.exists
  THEN [outcome |-> "nostate", io |-> {"loadState"}]
  ELSE IF apiUrl = "" \/ apiKey \in {Undef, ""}
  THEN [outcome |-> "config", io |-> {"loadState"}]
  ELSE IF FindLocale(d, BaseLocale) = 0
  THEN [outcome |-> "nodefault", io |-> {"loadState"}]
  ELSE [outcome |-> "run", io |-> {"loadState", "readdir"}]

\* translate(options) up to the call of performTranslations and the readdir
\* of the base locale in it: the outcome and the I/O done on the way
translateEntry(apiUrl, apiKey, d) ==
  IF apiUrl = "" \/ apiKey \in {Undef, ""}
  THEN [outcome |-> "config", io |-> {}]
  ELSE IF ~d.exists
  THEN [outcome |-> "nostate", io |-> {"loadState"}]
  ELSE IF FindLocale(d, BaseLocale) = 0
  THEN [outcome |-> "nodefault", io |-> {"loadState"}]
  ELSE [outcome |-> "run", io |-> {"loadState", "readdir"}]

\* the command is over: back to the prompt
Finish(h, outcome, io) ==
  /\ pc' = "idle"
  /\ mem' = createState
  /\ run' = NoRun
  /\ tasks' = [l \in TargetDirs |-> NoTask]
  /\ pending' = <<>>
  /\ hist' = [h EXCEPT !.op = "translate", !.outcome = outcome,
                        !.io = @ \cup io]

\* saveAiTranslations up to the first file of performTranslations
SaveAiTranslations(apiUrl, apiKey, updateAll) ==
  /\ pc = "cmd"
  /\ UNCHANGED <<disk, tree, keysFile, clock, edits, runs, translates, calls>>
  /\ IF ~loadState(disk).exists
     THEN Finish([NoHist EXCEPT !.pre = disk], "nostate", {"loadState"})
     ELSE LET r == translateEntry(apiUrl, apiKey, disk)
          IN IF r.outcome # "run"
             THEN Finish([NoHist EXCEPT !.pre = disk], r.outcome, r.io)
             ELSE /\ mem' = disk
                  /\ run' = [NoRun EXCEPT
                               !.updateAll = updateAll,
                               !.files = ListFiles(tree, BaseLocale),
                               !.fi = 1,
                               !.languages =
                                  SelectSeq(Codes(disk),
                                            LAMBDA c : c # BaseLocale)]
                  /\ pc' = IF ListFiles(tree, BaseLocale) = <<>>
                           THEN "save" ELSE "file"
                  /\ hist' = [NoHist EXCEPT !.op = "translate",
                                            !.outcome = "running",
                                            !.pre = disk, !.io = r.io]
                  /\ UNCHANGED <<tasks, pending>>

\* performTranslations, the head of the loop over the base files: read the
\* file, touch its keys for the base locale, start one translateLanguage
\* per other language
FileStart ==
  /\ pc = "file"
  /\ LET file == run.files[run.fi]
         f == tree[BaseLocale].files[file]
     IN IF f.kind = "bad"
        THEN Finish(hist, "parse", {"readFile"})
        ELSE /\ mem' = TouchAll(mem, BaseLocale,
                                flattenKeys(f.entries, file), 1, clock)
             /\ run' = [run EXCEPT
                          !.now = clock, !.content = f.entries,
                          !.results = Append(@, [file |-> file,
                                                 lang |-> BaseLocale,
                                                 content |-> f.entries])]
             /\ tasks' = [l \in TargetDirs |->
                            IF l \in Range(run.languages)
                            THEN [NoTask EXCEPT !.pc = "read"] ELSE NoTask]
             /\ pc' = "tasks"
             /\ hist' = [hist EXCEPT !.now = clock,
                                     !.io = @ \cup {"readFile", "touch"}]
             /\ UNCHANGED pending
  /\ UNCHANGED <<disk, tree, keysFile, clock, edits, runs, translates, calls>>

\* translateLanguage up to its first remote call: read the existing file
\* (any error reads as {}), compute the work set, split it
TaskRead(locale) ==
  /\ pc = "tasks" /\ tasks[locale].pc = "read"
  /\ LET file == run.files[run.fi]
         f == tree[locale].files[file]
         existingTranslations == IF f.kind = "json" THEN f.entries ELSE <<>>
         missing == missingTranslations(run.content, existingTranslations,
                                        run.updateAll)
         chunks == splitIntoChunks(missing, ChunkSize)
     IN IF missing = <<>>
        THEN /\ tasks' = [tasks EXCEPT ![locale] =
                            [NoTask EXCEPT !.pc = "done",
                                           !.existing = existingTranslations]]
             /\ run' = [run EXCEPT !.results =
                           Append(@, [file |-> file, lang |-> locale,
                                      content |-> existingTranslations])]
             /\ hist' = [hist EXCEPT !.io = @ \cup {"readFile"}]
        ELSE /\ tasks' = [tasks EXCEPT ![locale] =
                            [pc |-> "call", existing |-> existingTranslations,
                             chunks |-> chunks, ci |-> 1,
                             translated |-> <<>>, answers |-> <<>>]]
             /\ hist' = [hist EXCEPT
                           !.io = @ \cup {"readFile"},
                           !.had = @ \cup {<<locale, file, k>> :
                                     k \in TopKeySet(existingTranslations)},
                           !.work = @ \cup {<<locale, file, k>> :
                                      k \in TopKeySet(missing)},
                           !.nchunks = @ + Len(chunks)]
             /\ UNCHANGED run
  /\ UNCHANGED <<disk, tree, keysFile, clock, edits, runs, translates, pc, mem, pending,
                 calls>>

\* translateLanguage leaving the loop at the first failed chunk
LoopEnds_OnFailure(t, outcome) ==
  t.ci >= Len(t.chunks) \/ outcome.kind # "ok"

\* translateLanguage, for (const chunk of chunks): whether the turn with
\* this outcome is the last one
LoopEnds(t, outcome) == t.ci >= Len(t.chunks)

\* translateLanguage, one turn of the loop over the chunks; after the last
\* chunk the function runs on to its return without another await
TaskCall(locale, outcome) ==
  /\ pc = "tasks" /\ tasks[locale].pc = "call"
  /\ LET t == tasks[locale]
         file == run.files[run.fi]
         translation == translateViaCallOpenAi(outcome)
         translatedContent == Spread(t.translated, translation, 1)
         h == [hist EXCEPT
                 !.failed = IF outcome.kind = "ok" THEN @
                            ELSE @ \cup {<<locale, file, k>> :
                                           k \in TopKeySet(t.chunks[t.ci])},
                 !.got = @ \cup {<<locale, file, k>> :
                                  k \in TopKeySet(outcome.content)},
                 !.exact = @ /\ translation = Echo(locale, t.chunks[t.ci])]
     IN IF ~LoopEnds(t, outcome)
        THEN /\ tasks' = [tasks EXCEPT ![locale] =
                            [t EXCEPT !.ci = @ + 1,
                                      !.translated = translatedContent,
                                      !.answers = Append(@, translation)]]
             /\ hist' = [h EXCEPT !.io = @ \cup {"fetch"}, !.ncalls = @ + 1]
             /\ UNCHANGED <<mem, run>>
        ELSE /\ tasks' = [tasks EXCEPT ![locale] =
                            [t EXCEPT !.pc = "done",
                                      !.translated = translatedContent,
                                      !.answers = Append(@, translation)]]
             /\ LET flatTranslatedKeys == flattenKeys(translatedContent, file)
                IN /\ mem' = TouchAll(mem, locale, flatTranslatedKeys, 1,
                                      run.now)
                   /\ run' = [run EXCEPT !.results =
                                Append(@, [file |-> file, lang |-> locale,
                                           content |-> Spread(t.existing,
                                                    translatedContent, 1)])]
                   /\ hist' = [h EXCEPT
                        !.touched = @ \cup
                           {<<locale, file, flatTranslatedKeys[i]>> :
                              i \in 1..Len(flatTranslatedKeys)},
                        !.io = @ \cup (IF flatTranslatedKeys = <<>>
                                       THEN {"fetch"} ELSE {"fetch", "touch"}),
                        !.ncalls = @ + 1]
  /\ UNCHANGED <<disk, tree, keysFile, clock, edits, runs, translates, pc, pending, calls>>

\* performTranslations, after Promise.all: the next file, or return
FileEnd ==
  /\ pc = "tasks"
  /\ \A l \in TargetDirs : tasks[l].pc \in {"off", "done"}
  /\ tasks' = [l \in TargetDirs |-> NoTask]
  /\ IF run.fi < Len(run.files)
     THEN /\ run' = [run EXCEPT !.fi = @ + 1]
          /\ pc' = "file"
     ELSE /\ pc' = "save"
          /\ UNCHANGED run
  /\ UNCHANGED <<disk, tree, keysFile, clock, edits, runs, translates, mem, pending,
                 hist, calls>>

\* translate, after performTranslations: saveState(state) and return
SaveState ==
  /\ pc = "save"
  /\ disk' = mem
  /\ pending' = run.results
  /\ pc' = "write"
  /\ hist' = [hist EXCEPT !.saved = TRUE, !.io = @ \cup {"saveState"}]
  /\ UNCHANGED <<tree, keysFile, clock, edits, runs, translates, mem, run, tasks, calls>>

\* saveAiTranslations, one writeJSON of its loops, or the return
WriteNext ==
  /\ pc = "write"
  /\ IF pending = <<>>
     THEN /\ Finish(hist, "done", {})
          /\ UNCHANGED tree
     ELSE /\ tree' = writeJSON(tree, pending[1].lang, pending[1].file,
                               pending[1].content)
          /\ pending' = Tail(pending)
          /\ UNCHANGED <<pc, mem, run, tasks, hist>>
  /\ UNCHANGED <<disk, keysFile, clock, edits, runs, translates, calls>>

\* ------------------------------------------------------------ environment
BaseStrings == {"Hello!", ""}

Edited(t) ==
  /\ pc = "idle" /\ edits < MaxEdits
  /\ edits' = edits + 1
  /\ tree' = t
  /\ hist' = NoHist
  /\ UNCHANGED <<disk, keysFile, clock, runs, translates, pc, mem, run, tasks, pending,
                 calls>>

\* the user sets a string of the base locale's main.json
EditBase(k, str) ==
  /\ tree[BaseLocale].files["main"].kind = "json"
  /\ Edited([tree EXCEPT ![BaseLocale].files["main"].entries =
                PutEntry(@, Leaf(k, str))])

\* the user deletes a key of the base locale's main.json
DropBase(k) ==
  /\ tree[BaseLocale].files["main"].kind = "json"
  /\ k \in TopKeySet(tree[BaseLocale].files["main"].entries)
  /\ Edited([tree EXCEPT ![BaseLocale].files["main"].entries =
                SelectSeq(@, LAMBDA e : e.k # k)])

\* a file is left in a state that does not parse
Corrupt(dir) ==
  /\ tree[dir].files["main"].kind = "json"
  /\ Edited([tree EXCEPT ![dir].files["main"] = BadFile])

\* the user adds a locale directory with a main.json
AddLocale(dir) ==
  /\ ~tree[dir].exists
  /\ Edited([tree EXCEPT ![dir] = MainOnly(<<Leaf("hello", "Hola")>>)])

\* the user adds a locale directory whose main.json does not parse
AddBrokenLocale(dir) ==
  /\ ~tree[dir].exists
  /\ Edited([tree EXCEPT ![dir] =
                [exists |-> TRUE, files |-> [f \in FileNames |-> BadFile]]])

\* the base locale's directory is removed with its files
RemoveBaseDir ==
  /\ tree[BaseLocale].exists
  /\ Edited([tree EXCEPT ![BaseLocale] = NoDir])

\* time passes between two commands
Tick ==
  /\ pc = "idle" /\ clock < MaxTime
  /\ clock' = clock + 1
  /\ UNCHANGED <<disk, tree, keysFile, edits, runs, translates, pc, mem, run, tasks,
                 pending, hist, calls>>

Next ==
  \/ CmdInit
  \/ CmdSync
  \/ CmdSyncAgain
  \/ CmdStatus
  \/ CmdTranslate
  \/ \E apiUrl \in ApiUrls, apiKey \in ApiKeys, updateAll \in BOOLEAN :
       SaveAiTranslations(apiUrl, apiKey, updateAll)
  \/ FileStart
  \/ \E locale \in TargetDirs : TaskRead(locale)
  \/ \E locale \in TargetDirs :
       /\ tasks[locale].pc = "call"
       /\ \E outcome \in Outcomes(locale,
                                   tasks[locale].chunks[tasks[locale].ci]) :
            TaskCall(locale, outcome)
  \/ FileEnd
  \/ SaveState
  \/ WriteNext
  \/ \E k \in {"hello", "bye"}, str \in BaseStrings : EditBase(k, str)
  \/ \E k \in {"hello", "bye"} : DropBase(k)
  \/ \E dir \in {BaseLocale, "es"} : Corrupt(dir)
  \/ \E dir \in TargetDirs : AddLocale(dir)
  \/ AddBrokenLocale("es")
  \/ RemoveBaseDir
  \/ Tick

Spec == Init /\ [][Next]_vars

\* ---------------------------------------------------- claims on the oracle
\* two successive direct calls of touch on one (locale, key) with the same
\* supplied value, the second with the later date
SameValueAgain(i) ==
  /\ i + 1 <= Len(calls)
  /\ calls[i + 1].locale = calls[i].locale
  /\ calls[i + 1].key = calls[i].key
  /\ calls[i].current # Undef
  /\ calls[i + 1].current = calls[i].current
  /\ calls[i + 1].date > calls[i].date

\* C4 as stated: touch(state, L, K, t2, v) after touch(state, L, K, t1, v)
\* with t2 > t1 leaves the metadata of (L, K) unchanged, with
\* lastModified = t1 and current = v, whatever the state was.
C4_AsStated ==
  \A i \in 1..Len(calls) :
    SameValueAgain(i) =>
      /\ calls[i + 1].after = calls[i].after
      /\ calls[i + 1].after.lastModified = calls[i].date
      /\ calls[i + 1].after.current = calls[i].current

\* C4 amended: the second touch leaves the metadata of (L, K) as the first
\* touch left it, with current = v; lastModified is t1 when the first touch
\* stored v (the key had no metadata or another current value), and is the
\* older timestamp the first touch kept otherwise.
C4_Suppression ==
  \A i \in 1..Len(calls) :
    SameValueAgain(i) =>
      /\ calls[i + 1].after = calls[i].after
      /\ calls[i + 1].after.current = calls[i].current
      /\ calls[i + 1].after.lastModified =
           IF calls[i].before = NoMeta
              \/ calls[i].before.current # calls[i].current
           THEN calls[i].date
           ELSE calls[i].before.lastModified

C4_Witness ==
  \E i \in 1..Len(calls) :
    /\ SameValueAgain(i)
    /\ calls[i].before = NoMeta
    /\ MetaOf(mem, calls[i].locale, calls[i].key)
         = KeyMeta(calls[i].date, calls[i].current)

\* C5: isStale(state, base, locale, key) is true exactly when the key is in
\* the base locale's metadata and the key is absent from the locale's
\* metadata or the base lastModified is strictly later than the locale's.
C5_IsStale ==
  \A base \in OracleLocales, locale \in OracleLocales \cup {"fr"},
     key \in OracleKeys :
    LET b == MetaOf(mem, base, key)
        l == MetaOf(mem, locale, key)
    IN isStale(mem, base, locale, key)
         <=> /\ b # NoMeta
             /\ (l = NoMeta \/ b.lastModified > l.lastModified)

\* a key tracked with equal timestamps in both locales, and a key the target
\* tracks and the base does not
C5_Witness ==
  /\ Len(calls) > 0
  /\ \E key \in OracleKeys :
       /\ MetaOf(mem, "en", key) # NoMeta
       /\ MetaOf(mem, "es", key) # NoMeta
       /\ MetaOf(mem, "en", key).lastModified
            = MetaOf(mem, "es", key).lastModified
       /\ ~isStale(mem, "en", "es", key)
  /\ \E key \in OracleKeys :
       /\ MetaOf(mem, "en", key) = NoMeta
       /\ MetaOf(mem, "es", key) # NoMeta
       /\ ~isStale(mem, "en", "es", key)

\* the records the claim C6 describes
ExpectedDiffs(state) ==
  {[locale |-> l, key |-> k,
    baseTs |-> MetaOf(state, state.baseLocale, k).lastModified,
    localeTs |-> MetaOf(state, l, k).lastModified] :
     <<l, k>> \in {p \in (Range(Codes(state)) \ {state.baseLocale})
                          \X KeySet(LocaleKeys(state, state.baseLocale)) :
                     isStale(state, state.baseLocale, p[1], p[2])}}

\* C6: diffState(state) holds a record for (locale, key) exactly when locale
\* is a non-base locale entry, key is in the base metadata and isStale holds;
\* the record carries the base timestamp and the locale's timestamp or
\* "missing"; no record for a key absent from the base metadata or for the
\* base locale; empty when the base locale has no entry.
C6_DiffState ==
  LET diffs == diffState(mem)
  IN /\ Range(diffs) = ExpectedDiffs(mem)
     /\ Cardinality(Range(diffs)) = Len(diffs)
     /\ \A i \in 1..Len(diffs) :
          /\ diffs[i].locale # mem.baseLocale
          /\ MetaOf(mem, mem.baseLocale, diffs[i].key) # NoMeta
     /\ FindLocale(mem, mem.baseLocale) = 0 => diffs = <<>>

\* a diff with a stale timestamp, a diff with "missing", and a key the
\* target tracks that is left out
C6_Witness ==
  LET diffs == diffState(mem)
  IN /\ Len(calls) > 0
     /\ \E i \in 1..Len(diffs) : diffs[i].localeTs = Missing
     /\ \E i \in 1..Len(diffs) :
          diffs[i].localeTs # Missing /\ diffs[i].baseTs > diffs[i].localeTs

\* ------------------------------------------------- claims on the commands
\* the flat keys of a locale's file, {} when it is absent or unparsable
FileKeys(locale, file) ==
  Range(flattenKeys(tree[locale].files[file].entries, file))

FileTopKeys(locale, file) == TopKeySet(tree[locale].files[file].entries)

\* the flat entries of the base locale's files
RECURSIVE BaseFlat(_)
BaseFlat(j) ==
  IF j > Len(ListFiles(tree, BaseLocale)) THEN <<>>
  ELSE LET f == ListFiles(tree, BaseLocale)[j]
       IN flattenKeysWithValues(tree[BaseLocale].files[f].entries, f, 1)
          \o BaseFlat(j + 1)

TranslateRan == hist.op = "translate" /\ hist.outcome \in {"running", "done"}

\* C1 as stated: in a translate run the State metadata of a target (L, K) is
\* touched only after the merged content holding K was written to L's file:
\* whenever the run has touched (L, K), L's file holds K.
C1_WriteThenTouch ==
  TranslateRan =>
    \A t \in hist.touched :
      (pc # "idle" /\ MetaOf(mem, t[1], t[3]).lastModified = hist.now)
        => t[3] \in FileKeys(t[1], t[2])

\* C2 as stated: at every point of a translate run the persisted State holds
\* metadata this run produced for a target (L, K) only if K is in L's file
\* on disk.
C2_NoPhantomState ==
  TranslateRan =>
    \A t \in hist.touched :
      (hist.saved /\ MetaOf(disk, t[1], t[3]).lastModified = hist.now)
        => t[3] \in FileKeys(t[1], t[2])

SyncRan == hist.op = "sync" /\ hist.outcome \in {"done", "failed"}

\* the keys of the base metadata before the run that flattening the base
\* files no longer produces
GoneKeys ==
  KeySet(LocaleKeys(hist.pre, BaseLocale))
    \ {BaseFlat(1)[i].key : i \in 1..Len(BaseFlat(1))}

NowhereInState(state, key) ==
  \A i \in 1..Len(state.locales) : ~HasKey(state.locales[i].keys, key)

Translated(locale) ==
  {Tr(locale, str) : str \in {"Hello", "Hello!", "", "Bye", "More", "?"}}

\* C7: sync then translate, the collaborator returning a translation for
\* hello: the run ends with hello translated in the target locale's
\* main.json and not stale for that locale in the persisted State.
C7_SyncThenTranslate ==
  \A locale \in TargetDirs :
    (pc = "idle" /\ hist.op = "translate" /\ hist.outcome = "done"
       /\ <<locale, "main", "hello">> \in hist.got)
      => /\ \E i \in 1..Len(tree[locale].files["main"].entries) :
              LET e == tree[locale].files["main"].entries[i]
              IN e.k = "hello" /\ e.leaf /\ e.s \in Translated(locale)
         /\ ~isStale(disk, BaseLocale, locale, "main.hello")

\* the scenario itself: main.json = {hello: "Hello"}, es empty beforehand
C7_Witness ==
  /\ pc = "idle" /\ hist.op = "translate" /\ hist.outcome = "done"
  /\ tree[BaseLocale].files["main"] = JsonFile(<<Leaf("hello", "Hello")>>)
  /\ tree["es"].files["main"] = JsonFile(<<Leaf("hello", "es:Hello")>>)
  /\ hist.had = {}
  /\ <<"es", "main", "hello">> \in hist.got
  /\ MetaOf(disk, "es", "main.hello") # NoMeta
  /\ ~isStale(disk, BaseLocale, "es", "main.hello")

\* the base keys whose value read from the files differs from the value
\* stored as current before the run
ChangedEntries ==
  {e \in Range(BaseFlat(1)) :
     /\ MetaOf(hist.pre, BaseLocale, e.key) # NoMeta
     /\ MetaOf(hist.pre, BaseLocale, e.key).current # e.value}

\* what C8 says of a changed base entry after the run
BaseUpdated(e) ==
  /\ MetaOf(disk, BaseLocale, e.key) = KeyMeta(hist.now, e.value)
  /\ \A locale \in TargetDirs :
       (/\ MetaOf(hist.pre, locale, e.key) # NoMeta
        /\ MetaOf(hist.pre, locale, e.key).lastModified < hist.now)
         => isStale(disk, BaseLocale, locale, e.key)

\* C8 as stated: when a base key's value read from the files differs from
\* the stored current, a sync run sets its base lastModified to the run's
\* time and stores the new value, and the key is then stale for every target
\* locale tracking it with an older timestamp.
C8_AsStated ==
  (SyncRan /\ hist.outcome = "done") =>
    \A e \in ChangedEntries : BaseUpdated(e)

\* C8 amended: the same for a value read that is not the empty string (an
\* empty value read is not an update: nothing is stored for it).
C8_BaseUpdate ==
  (SyncRan /\ hist.outcome = "done") =>
    \A e \in ChangedEntries : e.value # "" => BaseUpdated(e)

C8_Witness ==
  /\ SyncRan /\ hist.outcome = "done"
  /\ \E e \in ChangedEntries :
       /\ e.value # ""
       /\ BaseUpdated(e)
       /\ MetaOf(hist.pre, "es", e.key) # NoMeta
       /\ isStale(disk, BaseLocale, "es", e.key)
       /\ ~isStale(hist.pre, BaseLocale, "es", e.key)

\* the selective work set the next invocation computes for (locale, file)
NextMissing(locale, file) ==
  TopKeySet(missingTranslations(
              tree[BaseLocale].files[file].entries,
              IF tree[locale].files[file].kind = "json"
              THEN tree[locale].files[file].entries ELSE <<>>,
              FALSE))

TranslateDone == pc = "idle" /\ hist.op = "translate" /\ hist.outcome = "done"

\* every scheduled chunk was called, failed or not
AllChunksCalled ==
  (TranslateRan /\ (pc \in {"save", "write"} \/ TranslateDone))
    => hist.ncalls = hist.nchunks

\* C9 as stated: a failed chunk call does not abort the run; the failed
\* chunk's keys stay absent from the target file and are in the missing set
\* of the next invocation.
C9_AsStated ==
  /\ AllChunksCalled
  /\ TranslateDone =>
       \A t \in hist.failed :
         /\ t[3] \notin FileTopKeys(t[1], t[2])
         /\ t[3] \in NextMissing(t[1], t[2])

\* C9 amended: a failed chunk call does not abort the run and adds nothing:
\* the failed chunk's keys that were not in the target file before the run
\* and that no other chunk's response returned are absent from the target
\* file and in the selective missing set of the next invocation.
C9_ChunkFailure ==
  /\ AllChunksCalled
  /\ TranslateDone =>
       \A t \in hist.failed \ (hist.got \cup hist.had) :
         /\ t[3] \notin FileTopKeys(t[1], t[2])
         /\ t[3] \in NextMissing(t[1], t[2])

\* a run of two chunks for es, one failed and one answered, to its end
C9_Witness ==
  /\ TranslateDone
  /\ hist.nchunks >= 2
  /\ \E t \in hist.failed \ (hist.got \cup hist.had) :
       /\ t[1] = "es"
       /\ t[3] \notin FileTopKeys(t[1], t[2])
       /\ \E g \in hist.got : g[1] = "es" /\ g[3] \in FileTopKeys("es", g[2])

LocaleDirs == {dir \in TargetDirs : tree[dir].exists}

\* a locale directory the State before the run has no entry for
NewLocales == {dir \in LocaleDirs : FindLocale(hist.pre, dir) = 0}

\* the files hold nothing the State before the run does not track: every
\* base entry is tracked with its value, no tracked base key is gone, every
\* locale directory has an entry and every key of its files is tracked
NothingToSync ==
  /\ GoneKeys = {}
  /\ \A e \in Range(BaseFlat(1)) :
       /\ MetaOf(hist.pre, BaseLocale, e.key) # NoMeta
       /\ MetaOf(hist.pre, BaseLocale, e.key).current = e.value
  /\ NewLocales = {}
  /\ \A dir \in LocaleDirs, f \in FileNames :
       FileKeys(dir, f) \subseteq KeySet(LocaleKeys(hist.pre, dir))

\* C11: a sync run saves the State only if it added, updated or removed a
\* key (the document differs from the one before the run) or found a locale
\* directory without an entry; when the files hold nothing new relative to
\* the State, the run does not save and makes no touch.
C11_SaveOnlyOnChange ==
  SyncRan =>
    /\ hist.saved => (disk # hist.pre \/ NewLocales # {})
    /\ (hist.outcome = "done" /\ NothingToSync) =>
         (~hist.saved /\ hist.touches = {} /\ disk = hist.pre)

C11_Witness ==
  /\ SyncRan /\ hist.outcome = "done" /\ NothingToSync
  /\ KeySet(LocaleKeys(hist.pre, BaseLocale)) # {}
  /\ KeySet(LocaleKeys(hist.pre, "es")) # {}
  /\ ~hist.saved /\ disk = hist.pre

\* the entries translateLanguage submits for a locale, over all its chunks
Submitted(locale) ==
  UNION {Range(tasks[locale].chunks[c]) :
           c \in 1..Len(tasks[locale].chunks)}

\* the entries of the base file the claim puts in the work set
ExpectedWork(locale, file, updateAll) ==
  {e \in Range(tree[BaseLocale].files[file].entries) :
     updateAll \/ e.k \notin FileTopKeys(locale, file)}

C13_StaleResubmitted ==
  \A locale \in TargetDirs :
    (pc = "tasks" /\ tasks[locale].pc \in {"call", "done"} /\ ~run.updateAll)
      => \A e \in Range(tree[BaseLocale].files[run.files[run.fi]].entries) :
           isStale(hist.pre, BaseLocale, locale,
                   run.files[run.fi] \o "." \o e.k)
             => e \in Submitted(locale)

\* the locale codes a State document can name
AnyLocale == AllDirs

\* the flat keys a State document can name
AnyKey == {f \o "." \o TopKeys[i] : f \in FileNames, i \in 1..Len(TopKeys)}

\* C14: across init, sync and translate runs the lastModified of a
\* (locale, key) pair that stays in the persisted State never decreases.
C14_Step ==
  \/ disk' = disk
  \/ \A locale \in AnyLocale, key \in AnyKey :
       (/\ MetaOf(disk, locale, key) # NoMeta
        /\ MetaOf(disk', locale, key) # NoMeta)
         => MetaOf(disk', locale, key).lastModified
              >= MetaOf(disk, locale, key).lastModified

C14_Monotonic == [][C14_Step]_vars

\* a save that moved a timestamp forward
C14_Witness ==
  /\ hist.op \in {"sync", "translate"} /\ hist.saved
  /\ \E locale \in AnyLocale, key \in AnyKey :
       /\ MetaOf(hist.pre, locale, key) # NoMeta
       /\ MetaOf(disk, locale, key) # NoMeta
       /\ MetaOf(disk, locale, key).lastModified
            > MetaOf(hist.pre, locale, key).lastModified

\* C15 as stated: checkStatus and syncState return 0 exactly when no stale
\* or missing pair is reported and no operational error occurred; they
\* return 1 when pairs remain, when there is no State document and when an
\* operational error occurred.
C15_ExitCodes ==
  hist.op \in {"sync", "status"} =>
    /\ hist.exit \in {0, 1}
    /\ hist.exit = 0 <=>
         (hist.outcome = "done" /\ Len(diffState(disk)) = 0)

\* C16: a run of the status operation leaves the State document, the
\* translation files and the generated key file as they were, whatever it
\* reports.
C16_Step ==
  (runs' = runs + 1 /\ hist'.op = "status")
    => (disk' = disk /\ tree' = tree /\ keysFile' = keysFile)

C16_StatusReadOnly == [][C16_Step]_vars

\* a status run on files the State is behind of (a sync would have written)
C16_Witness ==
  /\ hist.op = "status" /\ hist.outcome = "done"
  /\ disk = hist.pre
  /\ \E e \in Range(BaseFlat(1)) :
       MetaOf(disk, BaseLocale, e.key).current # e.value

\* the last direct call of touch
LastCall == calls[Len(calls)]

\* the call stored nothing: it passed the value already stored as current
NoOpTouch(c) ==
  c.current # Undef /\ c.before # NoMeta /\ c.before.current = c.current

\* C17: staleness monotonicity.  When (L, K) was stale and a touch brings
\* L's timestamp for K to one not older than the base's, (L, K) is no
\* longer stale; when a pair was not stale, it is not stale after a touch
\* that is a no-op (the value passed is the stored current).
C17_StalenessMonotonic ==
  Len(calls) > 0 =>
    /\ (/\ <<LastCall.locale, LastCall.key>> \in LastCall.stale
        /\ LastCall.after.lastModified
             >= MetaOf(mem, BaseLocale, LastCall.key).lastModified)
         => ~isStale(mem, BaseLocale, LastCall.locale, LastCall.key)
    /\ NoOpTouch(LastCall) =>
         \A p \in (OracleLocales \X OracleKeys) \ LastCall.stale :
           ~isStale(mem, BaseLocale, p[1], p[2])

\* a stale pair refreshed by a touch, then touched again with the same value
\* and an older date
C17_Witness ==
  /\ Len(calls) >= 2
  /\ LET c == calls[Len(calls) - 1]
     IN /\ c.locale # BaseLocale
        /\ <<c.locale, c.key>> \in c.stale
        /\ <<c.locale, c.key>> \notin LastCall.stale
        /\ LastCall.locale = c.locale /\ LastCall.key = c.key
        /\ NoOpTouch(LastCall)
        /\ LastCall.date < LastCall.before.lastModified
        /\ ~isStale(mem, BaseLocale, c.locale, c.key)

\* obj[k]
EntryOf(obj, k) == CHOOSE e \in Range(obj) : e.k = k

\* the content translateLanguage returned for the locale and the current file
ResultsFor(locale) ==
  {r \in Range(run.results) :
     r.lang = locale /\ r.file = run.files[run.fi]}

\* content is existing united with translated, translated winning
MergedFrom(content, existing, translated) ==
  /\ TopKeySet(content) = TopKeySet(existing) \cup TopKeySet(translated)
  /\ Len(content) = Cardinality(TopKeySet(content))
  /\ \A k \in TopKeySet(content) :
       EntryOf(content, k) = IF k \in TopKeySet(translated)
                             THEN EntryOf(translated, k)
                             ELSE EntryOf(existing, k)

\* C18: the content a translate run produces for a target locale's file is
\* the existing file content united with the translated content, the
\* translated value winning for a key in both and every other existing key
\* keeping its value; that content is what the run writes to the file.
C18_Merge ==
  /\ \A locale \in TargetDirs :
       (pc = "tasks" /\ tasks[locale].pc = "done") =>
         /\ ResultsFor(locale) # {}
         /\ \A r \in ResultsFor(locale) :
              MergedFrom(r.content, tasks[locale].existing,
                         tasks[locale].translated)
  /\ pc = "write" =>
       \A i \in 1..(Len(run.results) - Len(pending)) :
         tree[run.results[i].lang].files[run.results[i].file]
           = JsonFile(run.results[i].content)

\* a key of the existing file translated again with another value
C18_Witness ==
  /\ pc = "tasks" /\ tasks["es"].pc = "done"
  /\ \E k \in TopKeySet(tasks["es"].existing)
              \cap TopKeySet(tasks["es"].translated) :
       /\ EntryOf(tasks["es"].existing, k) # EntryOf(tasks["es"].translated, k)
       /\ \A r \in ResultsFor("es") :
            EntryOf(r.content, k) = EntryOf(tasks["es"].translated, k)

\* a sync, status or translate run that found no State document
RanWithoutState ==
  hist.op \in {"sync", "status", "translate"} /\ ~hist.pre.exists

\* C19: without a State document syncState and checkStatus report the
\* missing state and return 1, translate raises an error; none of them
\* creates or changes a State, makes a touch or a remote call, or saves.
C19_MissingState ==
  RanWithoutState =>
    /\ hist.outcome = "nostate"
    /\ disk = NoState
    /\ ~hist.saved /\ hist.touches = {} /\ hist.touched = {}
    /\ hist.ncalls = 0 /\ "fetch" \notin hist.io
    /\ hist.op \in {"sync", "status"} => hist.exit = 1

\* a translate command on a project with base files and no State document
C19_Witness ==
  /\ RanWithoutState /\ hist.op = "translate" /\ pc = "idle"
  /\ Len(BaseFlat(1)) > 0
  /\ disk = NoState

\* the positions of the entries of a locale code in state.locales
EntriesOf(state, code) ==
  {i \in 1..Len(state.locales) : state.locales[i].code = code}

\* the last run tracked a key of the base locale
BaseKeyTracked ==
  \/ hist.op = "init" /\ hist.outcome = "done" /\ Len(BaseFlat(1)) > 0
  \/ hist.op = "sync" /\ hist.saved
       /\ \E t \in hist.touches : t[1] = BaseLocale
  \/ hist.op = "translate" /\ hist.saved /\ Len(BaseFlat(1)) > 0

C20_State ==
  /\ \A state \in {disk, mem}, code \in AnyLocale :
       Cardinality(EntriesOf(state, code)) <= 1
  /\ BaseKeyTracked => Cardinality(EntriesOf(disk, disk.baseLocale)) = 1

C20_Step ==
  \/ disk' = disk
  \/ Cardinality(EntriesOf(disk, disk.baseLocale)) = 1
       => Cardinality(EntriesOf(disk', disk'.baseLocale)) = 1

\* C20: after any sequence of init, sync and translate runs (each of them
\* working through touch), the State, in memory and persisted, holds at
\* most one locale entry per locale code; it holds exactly one entry for
\* baseLocale after a run that tracked a base-locale key, and keeps exactly
\* one from then on.
C20_UniqueLocales == []C20_State /\ [][C20_Step]_vars

\* a sync run that found a new locale directory, pushed its entry and then
\* touched the keys of its file
C20_Witness ==
  /\ SyncRan /\ hist.saved
  /\ FindLocale(hist.pre, "es") = 0
  /\ <<"es", "main.hello">> \in hist.touches
  /\ Cardinality(EntriesOf(disk, "es")) = 1
  /\ Cardinality(EntriesOf(disk, BaseLocale)) = 1
  /\ MetaOf(disk, "es", "main.hello") # NoMeta

\* the timestamp of a base key that stays tracked moves only with its value
BaseStampFollowsContent ==
  \/ disk' = disk
  \/ \A key \in AnyKey :
       (/\ MetaOf(disk, BaseLocale, key) # NoMeta
        /\ MetaOf(disk', BaseLocale, key) # NoMeta
        /\ MetaOf(disk', BaseLocale, key).lastModified
             # MetaOf(disk, BaseLocale, key).lastModified)
         => MetaOf(disk', BaseLocale, key).current
              # MetaOf(disk, BaseLocale, key).current

\* C21 as stated: the lastModified of a base-locale key changes only in a
\* step where the key is new or its observed content differs from the
\* stored current; a translate run changes it for no key whose content is
\* unchanged.
C21_BaseStampOnlyOnChange == [][BaseStampFollowsContent]_vars

\* C22 as stated: a sync run touches, for every tracked non-base locale,
\* every base-locale key that the locale's metadata lacks (removed keys
\* apart), so after the run every base key has metadata in every tracked
\* target locale.
C22_TargetsSeeded ==
  (SyncRan /\ hist.outcome = "done") =>
    \A i \in 1..Len(disk.locales) :
      KeySet(LocaleKeys(disk, BaseLocale)) \subseteq KeySet(disk.locales[i].keys)

\* C23: touch called without a value on a (locale, key) that has metadata
\* sets lastModified to the date passed and leaves current as it was.
C23_TimestampOnly ==
  \A i \in 1..Len(calls) :
    (calls[i].current = Undef /\ calls[i].before # NoMeta)
      => calls[i].after = KeyMeta(calls[i].date, calls[i].before.current)

\* a key holding a value, touched without a value at another date
C23_Witness ==
  \E i \in 1..Len(calls) :
    /\ calls[i].current = Undef
    /\ calls[i].before # NoMeta
    /\ calls[i].before.current # Undef
    /\ calls[i].date # calls[i].before.lastModified
    /\ calls[i].after = KeyMeta(calls[i].date, calls[i].before.current)

\* C24: touch on a pair without metadata creates the locale entry when it
\* is absent and stores the date with the value passed (no current when none
\* is passed); touch with a value that differs from the stored current stores
\* the date and the value; no call changes the metadata of another pair.
C24_Upsert ==
  \A i \in 1..Len(calls) :
    LET c == calls[i] IN
    /\ c.before = NoMeta => c.after = KeyMeta(c.date, c.current)
    /\ (c.before # NoMeta /\ c.current # Undef /\ c.current # c.before.current)
         => c.after = KeyMeta(c.date, c.current)
    /\ c.others

\* one history creating a locale entry, adding a key to an existing entry and
\* replacing a stored current, with another pair tracked meanwhile
C24_Witness ==
  /\ \E i \in 1..Len(calls) :
       /\ calls[i].before = NoMeta
       /\ \A j \in 1..(i - 1) : calls[j].locale # calls[i].locale
       /\ calls[i].after = KeyMeta(calls[i].date, calls[i].current)
  /\ \E i \in 1..Len(calls) :
       /\ calls[i].before = NoMeta
       /\ \E j \in 1..(i - 1) : calls[j].locale = calls[i].locale
       /\ \E j \in 1..(i - 1) :
            <<calls[j].locale, calls[j].key>> # <<calls[i].locale, calls[i].key>>
  /\ \E i \in 1..Len(calls) :
       /\ calls[i].before # NoMeta
       /\ calls[i].current # Undef
       /\ calls[i].current # calls[i].before.current
       /\ calls[i].after = KeyMeta(calls[i].date, calls[i].current)
       /\ calls[i].after.lastModified # calls[i].before.lastModified

\* the entries of the chunks from the i-th on, in order
RECURSIVE ConcatChunks(_, _)
ConcatChunks(chunks, i) ==
  IF i > Len(chunks) THEN <<>>
  ELSE chunks[i] \o ConcatChunks(chunks, i + 1)

\* the work set of the translateLanguage call running for a locale
WorkSetOf(locale) ==
  missingTranslations(run.content, tasks[locale].existing, run.updateAll)

\* C25: the chunks of a (locale, file) pair, put one after the other, are the
\* work set entry for entry (each key once, with its value, in key order);
\* every chunk but the last has ChunkSize entries, the last has between one
\* and ChunkSize.
C25_Partition ==
  \A l \in TargetDirs :
    tasks[l].pc \in {"call", "done"} =>
      LET chunks == tasks[l].chunks IN
      /\ ConcatChunks(chunks, 1) = WorkSetOf(l)
      /\ \A i \in 1..Len(chunks) :
           /\ Len(chunks[i]) >= 1
           /\ Len(chunks[i]) <= ChunkSize
           /\ i < Len(chunks) => Len(chunks[i]) = ChunkSize

\* a work set larger than a chunk that is not a multiple of ChunkSize
C25_Witness ==
  \E l \in TargetDirs :
    /\ tasks[l].pc = "call"
    /\ Len(tasks[l].chunks) = 2
    /\ Len(tasks[l].chunks[1]) = ChunkSize
    /\ Len(tasks[l].chunks[2]) = 1
    /\ Len(WorkSetOf(l)) = ChunkSize + 1

\* the answers that came back with key k, by their place in the sequence
AnswersWith(answers, k) ==
  {i \in 1..Len(answers) : k \in TopKeySet(answers[i])}

\* what translateViaCallOpenAi can return for a chunk
AnswersTo(locale, chunk) ==
  {translateViaCallOpenAi(o) : o \in Outcomes(locale, chunk)}

Max(S) == CHOOSE n \in S : \A m \in S : m <= n

C26_State ==
  \A l \in TargetDirs :
    tasks[l].pc \in {"call", "done"} /\ tasks[l].chunks # <<>> =>
      LET t == tasks[l] IN
      /\ Len(t.answers) = IF t.pc = "call" THEN t.ci - 1 ELSE Len(t.chunks)
      /\ \A i \in 1..Len(t.answers) :
           t.answers[i] \in AnswersTo(l, t.chunks[i])
      /\ TopKeySet(t.translated) =
           {k \in Range(TopKeys) : AnswersWith(t.answers, k) # {}}
      /\ Len(t.translated) = Cardinality(TopKeySet(t.translated))
      /\ \A k \in TopKeySet(t.translated) :
           EntryOf(t.translated, k) =
             EntryOf(t.answers[Max(AnswersWith(t.answers, k))], k)

C26_Step ==
  \A l \in TargetDirs :
    (tasks[l].pc = "call" /\ tasks'[l] # tasks[l]) =>
      /\ tasks'[l].chunks = tasks[l].chunks
      /\ Len(tasks'[l].answers) = Len(tasks[l].answers) + 1
      /\ SubSeq(tasks'[l].answers, 1, Len(tasks[l].answers)) = tasks[l].answers
      /\ hist'.ncalls = hist.ncalls + 1

C27_SaveAtEnd ==
  SyncRan =>
    /\ hist.outcome = "failed" => (~hist.saved /\ disk = hist.pre)
    /\ hist.saved => /\ hist.outcome = "done"
                     /\ disk = Reconcile(hist.pre, tree, hist.now).state
    /\ ~hist.saved => disk = hist.pre

\* a sync run that found a new language and then a file that does not
\* parse: the State file is as before, without the language
C27_Witness ==
  /\ SyncRan /\ hist.outcome = "failed"
  /\ disk.exists /\ disk = hist.pre
  /\ \E d \in TargetDirs :
       d \in allLanguages /\ tree[d].exists /\ FindLocale(disk, d) = 0

\* the base entries read as the empty string whose key the State before the
\* run tracks for the base locale
EmptiedEntries ==
  {e \in Range(BaseFlat(1)) :
     e.value = "" /\ MetaOf(hist.pre, BaseLocale, e.key) # NoMeta}

\* the files hold nothing the State before the run does not track, base
\* values read as the empty string apart
OnlyEmptied ==
  /\ GoneKeys = {}
  /\ \A e \in Range(BaseFlat(1)) :
       /\ MetaOf(hist.pre, BaseLocale, e.key) # NoMeta
       /\ e.value # "" => MetaOf(hist.pre, BaseLocale, e.key).current = e.value
  /\ NewLocales = {}
  /\ \A dir \in LocaleDirs, f \in FileNames :
       FileKeys(dir, f) \subseteq KeySet(LocaleKeys(hist.pre, dir))

\* C28: a sync run does not touch a tracked base key whose value it reads as
\* the empty string and does not count it as updated: the key's current and
\* lastModified in the State file are those of before the run, and a run
\* that finds nothing else to reconcile does not save.
C28_EmptyNotUpdate ==
  SyncRan =>
    /\ \A e \in EmptiedEntries :
         /\ <<BaseLocale, e.key>> \notin hist.touches
         /\ e.key \notin hist.updated
         /\ MetaOf(disk, BaseLocale, e.key) = MetaOf(hist.pre, BaseLocale, e.key)
    /\ (hist.outcome = "done" /\ OnlyEmptied) =>
         (~hist.saved /\ disk = hist.pre)

\* a tracked base string replaced by the empty string, nothing else to do
C28_Witness ==
  /\ SyncRan /\ hist.outcome = "done" /\ OnlyEmptied
  /\ \E e \in EmptiedEntries :
       /\ MetaOf(hist.pre, BaseLocale, e.key).current = "Hello"
       /\ MetaOf(disk, BaseLocale, e.key) = MetaOf(hist.pre, BaseLocale, e.key)
  /\ ~hist.saved

\* a step of init without a State, or of sync with one, taken while the
\* base locale's directory is missing
NoBaseDirRun ==
  /\ pc = "idle" /\ runs' = runs + 1
  /\ ~tree[BaseLocale].exists
  /\ \/ hist'.op = "init" /\ ~disk.exists
     \/ hist'.op = "sync" /\ disk.exists

C29_Step ==
  NoBaseDirRun =>
    /\ tree'[BaseLocale] = EmptyDir
    /\ hist'.outcome = "done"
    /\ disk'.exists
    /\ LocaleKeys(disk', BaseLocale) = <<>>
    /\ hist'.op = "init" => disk' = createState
    /\ hist'.op = "sync" =>
         /\ hist'.removed = KeySet(LocaleKeys(disk, BaseLocale))
         /\ \A key \in hist'.removed : NowhereInState(disk', key)

\* C29: when the base locale's directory is missing, an init run (without a
\* State) and a sync run (with one) create the directory and go on as with a
\* base locale without files: init saves a State without keys, sync drops
\* every tracked base key, and neither ends in an error.
C29_MissingBaseDir == [][C29_Step]_vars

\* a sync run that found the directory missing, created it and dropped the
\* keys it tracked
C29_Witness ==
  /\ SyncRan /\ hist.outcome = "done"
  /\ tree[BaseLocale] = EmptyDir
  /\ hist.removed # {}
  /\ hist.removed = KeySet(LocaleKeys(hist.pre, BaseLocale))
  /\ LocaleKeys(disk, BaseLocale) = <<>>

C30_Step ==
  (pc = "idle" /\ runs' = runs + 1 /\ hist'.op = "init" /\ disk.exists) =>
    /\ disk' = disk
    /\ tree' = tree
    /\ hist'.outcome = "exists"
    /\ ~hist'.saved
    /\ hist'.touches = {}

\* C30: an init run that finds a State document leaves it as it is: it
\* creates no State, makes no touch, saves nothing and leaves the translation
\* files alone, so only an init run that finds no State creates one.
C30_InitOnce == [][C30_Step]_vars

\* an init run on a State that the base files have moved away from
C30_Witness ==
  /\ hist.op = "init" /\ hist.outcome = "exists"
  /\ disk.exists /\ disk = hist.pre /\ ~hist.saved
  /\ \E e \in Range(BaseFlat(1)) :
       MetaOf(disk, BaseLocale, e.key).current # e.value

\* C31: the records of diffState follow the locale entries in the order of
\* state.locales and, within one locale, the keys in the order in which the
\* base locale's entry holds them.
C31_DiffOrder ==
  LET diffs == diffState(disk)
      baseKeys == LocaleKeys(disk, disk.baseLocale)
  IN \A i, j \in 1..Len(diffs) :
       i < j =>
         \/ FindLocale(disk, diffs[i].locale) < FindLocale(disk, diffs[j].locale)
         \/ /\ diffs[i].locale = diffs[j].locale
            /\ KeyIndex(baseKeys, diffs[i].key) < KeyIndex(baseKeys, diffs[j].key)

\* a State file with records for two locales and several keys: the last
\* record of the first locale has a later key than the first record of the
\* second locale
C31_Witness ==
  LET diffs == diffState(disk)
      baseKeys == LocaleKeys(disk, disk.baseLocale)
  IN /\ Len(diffs) >= 4
     /\ \E i \in 1..(Len(diffs) - 1) :
          /\ diffs[i].locale # diffs[i + 1].locale
          /\ KeyIndex(baseKeys, diffs[i].key)
               > KeyIndex(baseKeys, diffs[i + 1].key)
     /\ \E i \in 1..(Len(diffs) - 1) :
          /\ diffs[i].locale = diffs[i + 1].locale
          /\ diffs[i].key # diffs[i + 1].key

\* C32 as stated: a (target locale, key) pair that is not stale in the State
\* a translate run loaded is not stale in the State the run saves.
C32_NoNewStale ==
  (TranslateRan /\ hist.saved) =>
    \A locale \in TargetDirs, key \in AnyKey :
      ~isStale(hist.pre, BaseLocale, locale, key)
        => ~isStale(disk, BaseLocale, locale, key)

\* an init run that created the State
InitRan == hist.op = "init" /\ hist.outcome = "done"

\* C33: in the State an init run has created, every base key carries the
\* run's time in the base locale and in every other locale directory found,
\* so that diffState of the document is empty, whatever the files of the
\* other locales hold.
C33_InitInSync ==
  InitRan =>
    /\ \A key \in KeySet(LocaleKeys(disk, BaseLocale)) :
         /\ MetaOf(disk, BaseLocale, key).lastModified = hist.now
         /\ \A dir \in LocaleDirs :
              MetaOf(disk, dir, key).lastModified = hist.now
    /\ diffState(disk) = <<>>

\* three base keys, two other locale directories, one with a file that
\* lacks base keys
C33_Witness ==
  /\ InitRan
  /\ Cardinality(KeySet(LocaleKeys(disk, BaseLocale))) = 3
  /\ LocaleDirs = TargetDirs
  /\ "main.hello" \notin FileKeys("es", "main")
  /\ MetaOf(disk, "es", "main.hello") = KeyMeta(hist.now, Undef)
  /\ diffState(disk) = <<>>

\* C34 as stated: after a completed sync run every key in the metadata of a
\* locale is a key of the base locale's metadata.
C34_NoTargetOnlyKeys ==
  (SyncRan /\ hist.outcome = "done") =>
    \A i \in 1..Len(disk.locales) :
      KeySet(disk.locales[i].keys) \subseteq KeySet(LocaleKeys(disk, BaseLocale))

\* C35 as stated: when the translateLanguage call of a locale has returned,
\* the keys it touched for the locale are flat keys of its work set and the
\* keys its result adds to the existing file content are keys of its work
\* set, whatever the collaborator answered.
C35_WithinWorkSet ==
  \A l \in TargetDirs :
    (pc = "tasks" /\ tasks[l].pc = "done" /\ tasks[l].chunks # <<>>) =>
      LET file == run.files[run.fi] IN
      /\ {t[3] : t \in {u \in hist.touched : u[1] = l /\ u[2] = file}}
           \subseteq Range(flattenKeys(WorkSetOf(l), file))
      /\ \A r \in ResultsFor(l) :
           TopKeySet(r.content) \ TopKeySet(tasks[l].existing)
             \subseteq TopKeySet(WorkSetOf(l))

\* a sync run that follows a completed sync run with no edit in between
C36_Step ==
  (/\ pc = "idle" /\ SyncRan /\ hist.outcome = "done"
   /\ runs' = runs + 1 /\ hist'.op = "sync") =>
    /\ hist'.touches = {}
    /\ hist'.removed = {}
    /\ ~hist'.saved
    /\ disk' = disk
    /\ hist'.exit = hist.exit

\* C36 as stated: a sync run that follows a completed sync run on unchanged
\* files makes no touch, removes no key, does not save the State and returns
\* the exit code of the run before.
C36_SyncIdempotent == [][C36_Step]_vars

\* the results of the running translate call that are not of the locale
ResultsNotOf(results, locale) ==
  SelectSeq(results, LAMBDA r : r.lang # locale)

\* a step of the translateLanguage call of locale l leaves the metadata of
\* the other locales, their results and their calls as they were
C37_Step ==
  \A l \in TargetDirs :
    (pc = "tasks" /\ pc' = "tasks" /\ tasks'[l] # tasks[l]) =>
      /\ \A d \in AnyLocale \ {l}, key \in AnyKey :
           MetaOf(mem', d, key) = MetaOf(mem, d, key)
      /\ ResultsNotOf(run'.results, l) = ResultsNotOf(run.results, l)
      /\ \A d \in TargetDirs \ {l} : tasks'[d] = tasks[d]

\* while the calls of one file run, every key a returned call has touched
\* carries the run's time for its locale, and the call's result is there
C37_State ==
  \A l \in TargetDirs :
    (pc = "tasks" /\ tasks[l].pc = "done") =>
      /\ \A i \in 1..Len(flattenKeys(tasks[l].translated, run.files[run.fi])) :
           MetaOf(mem, l, flattenKeys(tasks[l].translated,
                                      run.files[run.fi])[i]).lastModified
             = run.now
      /\ Cardinality(ResultsFor(l)) = 1

\* C37: with the translateLanguage calls of several locales under way for
\* one file, each step of the call of locale L changes the metadata of L
\* only and adds the result of L only, in whatever order the calls' steps
\* come; the touches and the result of a call that has returned stay as
\* they are while the other calls run.
C37_TaskIsolation == []C37_State /\ [][C37_Step]_vars

\* both locales have touched keys, es returned before xx made its last call
C37_Witness ==
  /\ pc = "tasks"
  /\ tasks["es"].pc = "done" /\ tasks["xx"].pc = "done"
  /\ tasks["es"].translated # <<>> /\ tasks["xx"].translated # <<>>
  /\ Len(tasks["xx"].chunks) = 2
  /\ \E i, j \in 1..Len(run.results) :
       /\ i < j
       /\ run.results[i].lang = "es" /\ run.results[j].lang = "xx"
  /\ MetaOf(mem, "es", "main.hello").lastModified = run.now
  /\ MetaOf(mem, "xx", "main.hello").lastModified = run.now

\* C38 as stated: when a selective translate run in which every call
\* returned its chunk translated has written its files, every flat key of
\* every base file, nested ones included, is a flat key of the same file of
\* each target locale.
C38_AllLeavesTranslated ==
  (/\ pc = "write" /\ pending = <<>>
   /\ ~run.updateAll /\ hist.exact /\ hist.failed = {}) =>
    \A l \in Range(run.languages), f \in Range(run.files) :
      FileKeys(BaseLocale, f) \subseteq FileKeys(l, f)

\* a sync step on a State that tracks base keys, taken while the base
\* locale's directory is missing
C39_Step ==
  (/\ pc = "idle" /\ runs' = runs + 1 /\ hist'.op = "sync"
   /\ ~tree[BaseLocale].exists
   /\ disk.exists /\ LocaleKeys(disk, BaseLocale) # <<>>) =>
    /\ hist'.saved
    /\ disk'.exists /\ disk' # disk
    /\ \A key \in KeySet(LocaleKeys(disk, BaseLocale)) :
         /\ key \in hist'.removed
         /\ NowhereInState(disk', key)
    /\ \A c \in Range(Codes(disk)) : FindLocale(disk', c) # 0

\* C39: a sync run on a State that tracks base keys, made while the base
\* locale's directory cannot be listed, deletes every key of the base
\* locale's metadata from the metadata of every locale (the locale entries
\* stay) and saves the State so emptied.
C39_MissingBaseEmpties == [][C39_Step]_vars

\* three keys tracked for the base locale and for es before the run, none
\* of them anywhere in the State file after it
C39_Witness ==
  /\ SyncRan /\ hist.saved
  /\ tree[BaseLocale] = EmptyDir
  /\ Cardinality(KeySet(LocaleKeys(hist.pre, BaseLocale))) = 3
  /\ KeySet(LocaleKeys(hist.pre, BaseLocale))
       \subseteq KeySet(LocaleKeys(hist.pre, "es"))
  /\ FindLocale(disk, "es") # 0
  /\ \A key \in KeySet(LocaleKeys(hist.pre, BaseLocale)) :
       NowhereInState(disk, key)

InitOracle == tree = [d \in AllDirs |-> NoDir] /\ Fresh

SpecOracle == InitOracle /\ [][NextOracle]_vars

====
